---- MODULE Spec2Model ----
(***************************************************************************)
(* GRS (src/grs.py): a GTK feed reader.  The model covers the read-state   *)
(* cache (CACHE, its pickle file), the per-feed article lists, the fetch   *)
(* cycle (Window.update / Window.update_after), the list-view rebuild      *)
(* (Feed.update) and the three handlers that change read state.            *)
(***************************************************************************)
EXTENDS Integers, Sequences, FiniteSets, TLC

VARIABLES
    CONFIG,        \* the configured sections (feed names)
    CACHE,         \* url -> set of guids (a defaultdict(set): partial map)
    disk,          \* CACHE_PATH: [exists, data], data the pickled mapping
    articles,      \* feed -> feed.articles (also the rows of its list view)
    cursor,        \* feed -> row of the tree-view cursor, 0 when there is none
    last_article,  \* Window.last_article: [feed, row]; feed None or Stale, row 0, for no row
    visible,       \* the feed shown by the stack
    pending,       \* feed -> notify -> number of queued messages not yet answered
    activated,     \* GRS.do_activate has run
    persistent,    \* history: feed -> guids present in every successful document so far
    notified,      \* history: feed -> guid -> notifications emitted for it (capped at 2)
    clean,         \* history: feeds refreshed with no read-state change by a handler since
    repeated,      \* history: the last step refreshed a clean feed with the same list again
    ev             \* the last handler that ran on the read state, and what it emitted

prog == <<CONFIG, CACHE, disk, articles, cursor, last_article, visible,
          pending, activated, ev>>
hist == <<persistent, notified, clean, repeated>>
vars == <<prog, hist>>

(***************************************************************************)
(* Bounds                                                                  *)
(***************************************************************************)
MaxLen == 2         \* entries per fetched document
MaxPending == 2     \* queued, unanswered messages per feed

(***************************************************************************)
(* Values                                                                  *)
(***************************************************************************)
None == "None"       \* Python's None
Absent == "Absent"   \* tag.find(...) found no element
Href == "Href"       \* a link element with an href attribute and no text
Empty == "Empty"     \* an element without text (.text is None)
Stale == "Stale"     \* an Article object of a discarded generation

Guids == {"a", "b"}

URL(name) == IF name = "f1" THEN "u1" ELSE "u2"

\* The item/entry elements the servers can send.
Entries ==
    { [kind |-> "item",  title |-> "T1",   link |-> Href,   id |-> "a"],
      [kind |-> "item",  title |-> " T2 ", link |-> "b",    id |-> Absent],
      [kind |-> "entry", title |-> Empty,  link |-> Href,   id |-> Absent],
      [kind |-> "item",  title |-> Absent, link |-> Href,   id |-> "b"] }

Docs == UNION { [1..n -> Entries] : n \in 0..MaxLen }

(***************************************************************************)
(* Article.__init__                                                        *)
(***************************************************************************)
strip(s) == IF s = " T2 " THEN "T2" ELSE s

\* tag.find(...) returns None for a missing title or link and .text / .attrib raises
ArticleRaises(tag) == tag.title = Absent \/ tag.link = Absent

ArticleTitle(tag) == IF tag.title = Empty THEN "" ELSE strip(tag.title)

\* the first of (id, guid, link) with text
ArticleGuid(tag) ==
    IF tag.id # Absent THEN tag.id
    ELSE IF tag.link \notin {Absent, Href} THEN tag.link
    ELSE None

Article(feed, tag) ==
    [feed |-> feed, title |-> ArticleTitle(tag), guid |-> ArticleGuid(tag)]

(***************************************************************************)
(* The defaultdict CACHE                                                   *)
(***************************************************************************)
CacheGet(c, u) == IF u \in DOMAIN c THEN c[u] ELSE {}

CachePut(c, u, s) == [x \in DOMAIN c \cup {u} |-> IF x = u THEN s ELSE c[x]]

\* Article.read
read(c, article) == article.guid \in CacheGet(c, URL(article.feed))

GuidList(as) == [i \in 1..Len(as) |-> as[i].guid]
GuidSet(as) == {as[i].guid : i \in 1..Len(as)}

EmptyMap == [u \in {} |-> {}]

\* set.add on CACHE[u]
CacheAdd(c, u, g) == CachePut(c, u, CacheGet(c, u) \cup {g})

\* set.discard on CACHE[u]
CacheDiscard(c, u, g) == CachePut(c, u, CacheGet(c, u) \ {g})

\* CACHE_PATH.write_bytes(pickle.dumps(CACHE))
Saved(c) == [exists |-> TRUE, data |-> c]

\* FeedList.set_attention reads article.read, which creates the key CACHE[url]
SetAttention(c, name, as) ==
    IF as = <<>> THEN c ELSE CachePut(c, URL(name), CacheGet(c, URL(name)))

NoArticle == [feed |-> None, row |-> 0]

(***************************************************************************)
(* The parse of a response (update_after, lines 159-164)                   *)
(***************************************************************************)
\* xml.iter(ns + 'item') first, then xml.iter(ns + 'entry')
Tags(doc) ==
    SelectSeq(doc, LAMBDA t : t.kind = "item") \o
    SelectSeq(doc, LAMBDA t : t.kind = "entry")

\* mutant: an entry without title or link does not raise
ParseRaises_XmlOnly(r) == ~r.ok

\* ElementTree.fromstring or an Article constructor raises
ParseRaises(r) == ~r.ok \/ \E i \in 1..Len(r.body) : ArticleRaises(r.body[i])

NewArticles(name, doc) ==
    [i \in 1..Len(Tags(doc)) |-> Article(name, Tags(doc)[i])]

Responses == {[ok |-> FALSE, body |-> <<>>]} \cup {[ok |-> TRUE, body |-> d] : d \in Docs}

(***************************************************************************)
(* Reconciliation (update_after, lines 165-170)                            *)
(***************************************************************************)
\* mutant: nothing is evicted
Retain_KeepsAll(c, u, as) == CachePut(c, u, CacheGet(c, u))

\* mutant: the set of every URL is intersected
Retain_EveryURL(c, u, as) ==
    [x \in DOMAIN c \cup {u} |-> CacheGet(c, x) \cap GuidSet(as)]

\* mutant: the set is united with the guids of the list (|= for &=)
Retain_Unites(c, u, as) == CachePut(c, u, CacheGet(c, u) \cup GuidSet(as))

\* CACHE[feed.url] &= {article.guid for article in feed.articles}
Retain(c, u, as) == CachePut(c, u, CacheGet(c, u) \cap GuidSet(as))

\* mutant: the membership test never finds the guid
InList_Never(g, old) == FALSE

InList(g, old) == \E i \in 1..Len(old) : old[i] = g

\* mutant: the previous list is not consulted
NewlyDiscovered_AllUnread(as, c, old) == SelectSeq(as, LAMBDA a : ~read(c, a))

\* the articles the loop of lines 167-170 notifies, in its order
NewlyDiscovered(as, c, old) ==
    SelectSeq(as, LAMBDA a : ~read(c, a) /\ ~InList(a.guid, old))

Notifications(name, as) ==
    [i \in 1..Len(as) |-> [name |-> name, title |-> as[i].title]]

(***************************************************************************)
(* Window._article_changed on the state st = [CACHE, disk, last_article,   *)
(* cursor], for the tree view of feed name showing rows                    *)
(***************************************************************************)
ArticleChanged(st, name, rows) ==
    IF st.cursor = 0
    THEN [st EXCEPT !.CACHE = SetAttention(st.CACHE, name, rows)]
    ELSE IF st.last_article = [feed |-> name, row |-> st.cursor]
    THEN [st EXCEPT !.last_article = NoArticle]
    ELSE LET c == CacheAdd(st.CACHE, URL(name), rows[st.cursor].guid)
         IN  [st EXCEPT !.CACHE = c, !.disk = Saved(c)]

(***************************************************************************)
(* Feed.update: rebuild the rows from feed.articles and put the cursor     *)
(* back on every row whose guid is that of the row it was on; each         *)
(* set_cursor emits cursor-changed                                         *)
(***************************************************************************)
RECURSIVE AppendRows(_, _, _, _, _, _)
AppendRows(st, name, new, active, guid, i) ==
    IF i > Len(new) THEN st
    ELSE AppendRows(
            IF active /\ new[i].guid = guid
            THEN ArticleChanged([st EXCEPT !.cursor = i], name, new)
            ELSE st,
            name, new, active, guid, i + 1)

FeedUpdate(st, name, rows, new) ==
    LET active == st.cursor # 0
        guid == IF active THEN rows[st.cursor].guid ELSE None
        removed == ArticleChanged([st EXCEPT !.cursor = 0], name, new)
    IN  AppendRows(removed, name, new, active, guid, 1)

(***************************************************************************)
(* History kept for the properties                                         *)
(***************************************************************************)
Count(as, g) == Cardinality({i \in 1..Len(as) : as[i].guid = g})

Min(x, y) == IF x < y THEN x ELSE y

\* op: "load", "update_after" or "handler" (one of the three click handlers)
\* found: the articles a notification was shown for, in order
Event(op, name, notify, ok, found) ==
    [op |-> op, feed |-> name, notify |-> notify, ok |-> ok, found |-> found]

Queued(name) == pending[name][TRUE] + pending[name][FALSE]

(***************************************************************************)
(* Initial state: the module is loaded (CACHE read from CACHE_PATH when    *)
(* the file exists) and no feed has articles                               *)
(***************************************************************************)
InitialFiles(urls) ==
    {[exists |-> FALSE, data |-> EmptyMap]} \cup
    {[exists |-> TRUE, data |-> [u \in urls |-> s]] : s \in SUBSET Guids}

InitWith(sections) ==
    /\ CONFIG = sections
    /\ disk \in InitialFiles({URL(name) : name \in sections})
    /\ CACHE = (IF disk.exists THEN disk.data ELSE EmptyMap)
    /\ articles = [name \in sections |-> <<>>]
    /\ cursor = [name \in sections |-> 0]
    /\ last_article = NoArticle
    /\ visible = "f1"
    /\ pending = [name \in sections |-> [n \in BOOLEAN |-> 0]]
    /\ activated = FALSE
    /\ persistent = [name \in sections |-> Guids]
    /\ notified = [name \in sections |-> [g \in Guids |-> 0]]
    /\ clean = {}
    /\ repeated = FALSE
    /\ ev = Event("load", None, FALSE, TRUE, <<>>)

Init == InitWith({"f1"})

\* mutant: the first cycle is queued with notify=True
do_activate_notifying ==
    /\ ~activated
    /\ activated' = TRUE
    /\ pending' = [name \in CONFIG |-> [pending[name] EXCEPT ![TRUE] = @ + 1]]
    /\ UNCHANGED <<CONFIG, CACHE, disk, articles, cursor, last_article, visible, ev>>

(***************************************************************************)
(* GRS.do_activate: the first cycle, notify=False, and the timer           *)
(***************************************************************************)
do_activate ==
    /\ ~activated
    /\ activated' = TRUE
    /\ pending' = [name \in CONFIG |-> [pending[name] EXCEPT ![FALSE] = @ + 1]]
    /\ UNCHANGED <<CONFIG, CACHE, disk, articles, cursor, last_article, visible, ev>>

\* mutant: the loop over the pages stops after the first feed
update_first_page ==
    /\ activated
    /\ \A name \in CONFIG : Queued(name) < MaxPending
    /\ pending' = [pending EXCEPT !["f1"][TRUE] = @ + 1]
    /\ UNCHANGED <<CONFIG, CACHE, disk, articles, cursor, last_article, visible,
                   activated, ev>>

(***************************************************************************)
(* Window.update, run by the 180 s timer: one message per feed             *)
(***************************************************************************)
update ==
    /\ activated
    /\ \A name \in CONFIG : Queued(name) < MaxPending
    /\ pending' = [name \in CONFIG |-> [pending[name] EXCEPT ![TRUE] = @ + 1]]
    /\ UNCHANGED <<CONFIG, CACHE, disk, articles, cursor, last_article, visible,
                   activated, ev>>

(***************************************************************************)
(* Window.update_after: the response r of a message queued with notify     *)
(***************************************************************************)
update_after(name, notify, r) ==
    /\ pending[name][notify] > 0
    /\ pending' = [pending EXCEPT ![name][notify] = @ - 1]
    /\ IF ParseRaises(r)
       THEN /\ ev' = Event("update_after", name, notify, FALSE, <<>>)
            /\ UNCHANGED <<CACHE, disk, articles, cursor, last_article>>
       ELSE LET old_articles == GuidList(articles[name])
                new == NewArticles(name, r.body)
                c == Retain(CACHE, URL(name), new)
                found == IF notify THEN NewlyDiscovered(new, c, old_articles) ELSE <<>>
                st == FeedUpdate(
                        [CACHE |-> c, disk |-> disk, cursor |-> cursor[name],
                         last_article |-> IF last_article.feed = name
                                          THEN [feed |-> Stale, row |-> 0]
                                          ELSE last_article],
                        name, articles[name], new)
            IN  /\ articles' = [articles EXCEPT ![name] = new]
                /\ CACHE' = SetAttention(st.CACHE, name, new)
                /\ disk' = st.disk
                /\ cursor' = [cursor EXCEPT ![name] = st.cursor]
                /\ last_article' = st.last_article
                /\ ev' = Event("update_after", name, notify, TRUE, found)
    /\ UNCHANGED <<CONFIG, visible, activated>>

(***************************************************************************)
(* cursor-changed after the user moved the cursor of a feed's list to row  *)
(***************************************************************************)
_article_changed(name, row) ==
    /\ activated
    /\ row \in 1..Len(articles[name])
    /\ LET st == ArticleChanged(
                    [CACHE |-> CACHE, disk |-> disk, cursor |-> row,
                     last_article |-> last_article], name, articles[name])
       IN  /\ CACHE' = SetAttention(st.CACHE, name, articles[name])
           /\ disk' = st.disk
           /\ last_article' = st.last_article
    /\ cursor' = [cursor EXCEPT ![name] = row]
    /\ ev' = Event("handler", name, FALSE, TRUE, <<>>)
    /\ UNCHANGED <<CONFIG, articles, visible, pending, activated>>

\* mutant: the branch that discards is missing
Toggle_Adds(c, u, g) == CacheAdd(c, u, g)

\* the if / else of Window._article_clicked on CACHE[u] and the guid g
Toggle(c, u, g) ==
    IF g \in CacheGet(c, u) THEN CacheDiscard(c, u, g) ELSE CacheAdd(c, u, g)

\* mutant: the toggle is not written to the file
_article_clicked_unsaved(name, row) ==
    /\ activated
    /\ row \in 1..Len(articles[name])
    /\ LET article == articles[name][row]
           c == Toggle(CACHE, URL(name), article.guid)
       IN  CACHE' = SetAttention(c, name, articles[name])
    /\ last_article' = [feed |-> name, row |-> row]
    /\ ev' = Event("handler", name, FALSE, TRUE, <<>>)
    /\ UNCHANGED <<CONFIG, disk, articles, cursor, visible, pending, activated>>

(***************************************************************************)
(* Window._article_clicked: middle click on a row of a feed's list         *)
(***************************************************************************)
_article_clicked(name, row) ==
    /\ activated
    /\ row \in 1..Len(articles[name])
    /\ LET article == articles[name][row]
           c == Toggle(CACHE, URL(name), article.guid)
       IN  /\ CACHE' = SetAttention(c, name, articles[name])
           /\ disk' = Saved(c)
    /\ last_article' = [feed |-> name, row |-> row]
    /\ ev' = Event("handler", name, FALSE, TRUE, <<>>)
    /\ UNCHANGED <<CONFIG, articles, cursor, visible, pending, activated>>

(***************************************************************************)
(* Window._feed_clicked: a click on the feed list; a double click marks    *)
(* all the articles of the visible feed                                    *)
(***************************************************************************)
\* mutant: the loop marks the first article only
AddAll_First(c, u, as, i) == IF i > Len(as) THEN c ELSE CacheAdd(c, u, as[i].guid)

RECURSIVE AddAll(_, _, _, _)
AddAll(c, u, as, i) ==
    IF i > Len(as) THEN c ELSE AddAll(CacheAdd(c, u, as[i].guid), u, as, i + 1)

_feed_clicked(clicks) ==
    /\ activated
    /\ IF clicks = 2
       THEN LET as == articles[visible]
                c == AddAll(CACHE, URL(visible), as, 1)
                st == IF as = <<>>
                      THEN ArticleChanged(
                             [CACHE |-> c, disk |-> Saved(c), cursor |-> 0,
                              last_article |-> last_article], visible, as)
                      ELSE ArticleChanged(
                             [CACHE |-> c, disk |-> Saved(c), cursor |-> 1,
                              last_article |-> last_article], visible, as)
            IN  /\ CACHE' = SetAttention(st.CACHE, visible, as)
                /\ disk' = st.disk
                /\ last_article' = st.last_article
                /\ cursor' = [cursor EXCEPT ![visible] = st.cursor]
                /\ ev' = Event("handler", visible, FALSE, TRUE, <<>>)
       ELSE UNCHANGED <<CACHE, disk, last_article, cursor, ev>>
    /\ UNCHANGED <<CONFIG, articles, visible, pending, activated>>

(***************************************************************************)
(* The user selects another page of the stack in the sidebar               *)
(***************************************************************************)
set_visible(name) ==
    /\ activated
    /\ visible' = name
    /\ UNCHANGED <<CONFIG, CACHE, disk, articles, cursor, last_article, pending,
                   activated, ev>>

(***************************************************************************)
(* What a step was, read off the state before and after it                 *)
(***************************************************************************)
\* update_after handled a response of the feed, queued with notify
AnsweredWith(name, notify) == pending'[name][notify] < pending[name][notify]

Answered(name) == AnsweredWith(name, TRUE) \/ AnsweredWith(name, FALSE)

\* ... and the response was parsed (no exception left update_after early)
Refreshed(name) == Answered(name) /\ ev'.ok

\* one of the click handlers changed the cache
HandlerChangedCache == pending' = pending /\ CACHE' # CACHE

(***************************************************************************)
(* History variables                                                       *)
(***************************************************************************)
TrackNotified ==
    /\ persistent' = [name \in CONFIG |->
            IF Refreshed(name) THEN persistent[name] \cap GuidSet(articles'[name])
            ELSE persistent[name]]
    /\ notified' = [name \in CONFIG |-> [g \in Guids |->
            IF g \notin persistent'[name] THEN 0
            ELSE IF Refreshed(name)
                 THEN Min(2, notified[name][g] + Count(ev'.found, g))
                 ELSE notified[name][g]]]
    /\ UNCHANGED <<clean, repeated>>

TrackClean ==
    /\ clean' = IF \E name \in CONFIG : Refreshed(name)
                THEN clean \cup {name \in CONFIG : Refreshed(name)}
                ELSE IF HandlerChangedCache THEN clean \ {ev'.feed}
                ELSE clean
    /\ repeated' = \E name \in clean :
                        Refreshed(name) /\ articles'[name] = articles[name]
    /\ UNCHANGED <<persistent, notified>>

(***************************************************************************)
(* Specifications.  They differ in the responses the servers send, in      *)
(* whether every response is handled before the timer fires again          *)
(* (Prompt: no two messages of a feed are queued at once) and in the       *)
(* history variables they track.                                           *)
(***************************************************************************)
Prompt == \A name \in CONFIG : Queued(name) <= 1

Timely(mode) == mode = "overlap" \/ Prompt'

Track(mode) ==
    CASE mode = "notified" -> TrackNotified
      [] mode = "clean" -> TrackClean
      [] OTHER -> UNCHANGED hist

NextWith(responses, mode) ==
    \/ do_activate /\ Track(mode)
    \/ update /\ Timely(mode) /\ Track(mode)
    \/ \E name \in CONFIG, notify \in BOOLEAN, r \in responses :
            update_after(name, notify, r) /\ Track(mode)
    \/ \E name \in CONFIG, row \in 1..MaxLen + 1 :
            _article_changed(name, row) /\ Track(mode)
    \/ \E name \in CONFIG, row \in 1..MaxLen + 1 :
            _article_clicked(name, row) /\ Track(mode)
    \/ \E clicks \in 1..2 : _feed_clicked(clicks) /\ Track(mode)
    \/ \E name \in CONFIG : set_visible(name) /\ Track(mode)

\* one feed, prompt responses
Next == NextWith(Responses, "prompt")

Spec == Init /\ [][Next]_vars

\* one feed, the timer may fire while messages are queued
NextOverlap == NextWith(Responses, "overlap")

SpecOverlap == Init /\ [][NextOverlap]_vars

\* one feed, with the history of notifications per guid
NextNotified == NextWith(Responses, "notified")

SpecNotified == Init /\ [][NextNotified]_vars

\* one feed, with the history of clean refreshes
NextClean == NextWith(Responses, "clean")

SpecClean == Init /\ [][NextClean]_vars

\* two feeds, whose servers send documents of at most one entry
ShortResponses == {r \in Responses : Len(r.body) <= 1}

InitTwo == InitWith({"f1", "f2"})

NextTwo == NextWith(ShortResponses, "prompt")

SpecTwo == InitTwo /\ [][NextTwo]_vars

\* two feeds, whose servers send an empty document or the document of two
\* items, one with the id a and then one with the link b
PairResponses ==
    {r \in Responses : r.ok /\ Len(r.body) \in {0, 2} /\
        (r.body # <<>> => r.body[1].id = "a" /\ r.body[2].link = "b")}

NextPairs == NextWith(PairResponses, "prompt")

SpecPairs == InitTwo /\ [][NextPairs]_vars

(***************************************************************************)
(* Properties                                                              *)
(***************************************************************************)
Unread(c, name, as) == {i \in 1..Len(as) : as[i].guid \notin CacheGet(c, URL(name))}

URLs == {URL(name) : name \in CONFIG}

HasMalformed(doc) == \E i \in 1..Len(doc) : ArticleRaises(doc[i])

\* C1: a successful refresh handled with notify=True notifies (feed name,
\* article title) for exactly the articles of the new list that are unread after
\* the eviction and whose guid was not in the list before, in the order of the
\* new list.
C1_NotifiesNewUnread ==
    [][\A name \in CONFIG :
        AnsweredWith(name, TRUE) /\ ev'.ok =>
            LET new == articles'[name]
                kept == CacheGet(CACHE, URL(name)) \cap GuidSet(new)
                due == SelectSeq(new, LAMBDA a :
                            a.guid \notin kept /\ a.guid \notin GuidSet(articles[name]))
            IN  Notifications(name, ev'.found) =
                    [i \in 1..Len(due) |-> [name |-> name, title |-> due[i].title]]
      ]_vars

\* C1 witness: a refresh notified two articles, "b" before "a", in list order.
C1_Witness ==
    /\ ev.op = "update_after" /\ ev.notify /\ ev.ok
    /\ GuidList(ev.found) = <<"b", "a">>
    /\ GuidList(articles[ev.feed]) = <<"b", "a">>

\* C2: for a guid present in every successfully fetched document of a feed, at
\* most one notification is ever emitted (counted per guid, not per entry).
C2_AtMostOncePerGuid ==
    \A name \in CONFIG : \A g \in persistent[name] : notified[name][g] <= 1

\* C3: a successful refresh of a feed that yields the same article list as the
\* previous successful refresh, with no change of read state by a handler in
\* between, notifies nothing and leaves the cache set of the feed's URL as it was.
C3_IdempotentReconciliation ==
    [][\A name \in clean :
        Refreshed(name) /\ articles'[name] = articles[name] =>
            /\ ev'.found = <<>>
            /\ CacheGet(CACHE', URL(name)) = CacheGet(CACHE, URL(name))
      ]_vars

\* C3 witness: the same list was refreshed again with notify=True while one of
\* its articles was unread.
C3_Witness ==
    /\ repeated /\ ev.op = "update_after" /\ ev.notify /\ ev.ok
    /\ Unread(CACHE, ev.feed, articles[ev.feed]) # {}

\* C4: activation queues the first cycle at once with notify=False, a response
\* of that cycle notifies nothing, and only the timer, which runs after
\* activation, queues messages with notify=True.
C4_InitialCycleSilent ==
    [][\A name \in CONFIG :
        /\ (~activated /\ activated') =>
                pending'[name][FALSE] = 1 /\ pending'[name][TRUE] = 0
        /\ pending'[name][FALSE] > pending[name][FALSE] => ~activated
        /\ pending'[name][TRUE] > pending[name][TRUE] => activated
        /\ AnsweredWith(name, FALSE) => ev'.found = <<>>
      ]_vars

\* C4 witness: a response of the first cycle was parsed, left an unread article
\* that was not in the list before, and notified nothing.
C4_Witness ==
    /\ ev.op = "update_after" /\ ~ev.notify /\ ev.ok /\ ev.found = <<>>
    /\ Unread(CACHE, ev.feed, articles[ev.feed]) # {}

\* C5: right after a successful refresh of a feed the cache set of its URL is a
\* subset of the guids of the new article list.
C5_EvictionBound ==
    (ev.op = "update_after" /\ ev.ok) =>
        CacheGet(CACHE, URL(ev.feed)) \subseteq GuidSet(articles[ev.feed])

\* C5 witness: the refresh dropped a guid that was marked read and saved.
C5_Witness ==
    /\ ev.op = "update_after" /\ ev.ok /\ disk.exists
    /\ articles[ev.feed] # <<>>
    /\ CacheGet(disk.data, URL(ev.feed)) \ CacheGet(CACHE, URL(ev.feed)) # {}

\* C6: handling a response never adds a guid to a cache set: for every URL the
\* set after the refresh is a subset of the set before it.
C6_FetchNeverMarksRead ==
    [][(\E name \in CONFIG : Answered(name)) =>
            \A u \in URLs : CacheGet(CACHE', u) \subseteq CacheGet(CACHE, u)
      ]_vars

\* C7: handling a response of a feed, parsed or not, leaves the cache set of
\* every URL other than the feed's unchanged.
C7_OtherFeedsUntouched ==
    [][\A name \in CONFIG :
        Answered(name) =>
            \A u \in (DOMAIN CACHE \cup DOMAIN CACHE') \ {URL(name)} :
                /\ u \in DOMAIN CACHE /\ u \in DOMAIN CACHE'
                /\ CACHE'[u] = CACHE[u]
      ]_vars

\* C7 witness: a refresh of f2 evicted a saved guid of u2 while u1 holds a guid
\* that a middle click on an article of f1 marked read.
C7_Witness ==
    /\ ev.op = "update_after" /\ ev.ok /\ ev.feed = "f2" /\ disk.exists
    /\ last_article.feed = "f1" /\ articles["f1"] # <<>>
    /\ GuidSet(articles["f1"]) \subseteq CacheGet(CACHE, "u1")
    /\ CacheGet(disk.data, "u2") \ CacheGet(CACHE, "u2") # {}
    /\ CacheGet(CACHE, "u1") # {}

\* the responses that fail in transport, are not well-formed XML, or hold an
\* entry no Article can be built from
Unparsable == {r \in Responses : ~r.ok \/ HasMalformed(r.body)}

\* the article lists a complete parse of a document can yield
CompleteLists ==
    [name \in {"f1", "f2"} |->
        {NewArticles(name, r.body) : r \in Responses \ Unparsable}]

\* C8: a response that cannot be turned into an article list changes neither the
\* feed's articles nor the cache nor the file and notifies nothing; a feed's
\* list only changes in a refresh that parsed its response, and then to the
\* complete list of a document whose entries all yield an article.
C8_FailedRefreshChangesNothing ==
    [][\A name \in CONFIG :
        /\ (Answered(name) /\ ~ev'.ok) =>
                /\ articles' = articles
                /\ CACHE' = CACHE
                /\ disk' = disk
                /\ ev'.found = <<>>
        /\ (Answered(name) /\ ev'.ok) => articles'[name] \in CompleteLists[name]
        /\ articles'[name] # articles[name] => Answered(name) /\ ev'.ok
      ]_vars

\* C8 witness: a response failed for a feed that has articles and a read guid.
C8_Witness ==
    /\ ev.op = "update_after" /\ ~ev.ok
    /\ articles[ev.feed] # <<>>
    /\ CacheGet(CACHE, URL(ev.feed)) # {}

RECURSIVE IsSubSeq(_, _)
IsSubSeq(s, t) ==
    IF s = <<>> THEN TRUE
    ELSE IF t = <<>> THEN FALSE
    ELSE IF Head(s) = Head(t) THEN IsSubSeq(Tail(s), Tail(t))
    ELSE IsSubSeq(s, Tail(t))

\* C9: a well-formed document with an entry that lacks its title or link element
\* is still refreshed: the new list holds all the other entries in document order.
C9_MalformedEntryTolerated ==
    [][\A name \in CONFIG, notify \in BOOLEAN, doc \in Docs :
        (HasMalformed(doc) /\ update_after(name, notify, [ok |-> TRUE, body |-> doc])) =>
            /\ ev'.ok
            /\ IsSubSeq(NewArticles(name, SelectSeq(doc, LAMBDA t : ~ArticleRaises(t))),
                        articles'[name])
      ]_vars

\* C10: when a click handler that changed the cache has returned, the file
\* holds exactly the cache.
C10_HandlersSave ==
    [][HandlerChangedCache => (disk'.exists /\ disk'.data = CACHE')]_vars

\* C10 witness: a middle click toggled an article to read and the file holds it.
C10_Witness ==
    /\ ev.op = "handler" /\ last_article.feed = ev.feed
    /\ CacheGet(CACHE, URL(ev.feed)) # {}
    /\ disk.exists /\ disk.data = CACHE

\* C11: once every response of a cycle has been handled, the file holds the
\* cache: after a refresh that leaves no message queued, an existing file has,
\* for every URL, the set the cache has.
C11_CyclePersisted ==
    (ev.op = "update_after" /\ ev.ok /\ disk.exists
        /\ \A name \in CONFIG : Queued(name) = 0) =>
            \A u \in URLs : CacheGet(disk.data, u) = CacheGet(CACHE, u)

\* C12: right after a successful refresh of a feed the cache set of its URL
\* does not hold the absent guid (None).
C12_NoAbsentGuidCached ==
    (ev.op = "update_after" /\ ev.ok) => None \notin CacheGet(CACHE, URL(ev.feed))

\* C13 as stated: in every state the number of guids cached for a feed's URL
\* is at most the number of distinct guids of the feed's current article list.
C13_NeverExceedsList ==
    \A name \in CONFIG :
        Cardinality(CacheGet(CACHE, URL(name))) <=
            Cardinality(GuidSet(articles[name]) \ {None})

\* the cached values of the feed's URL are guid values of its current list
Listed(c, name, as) == CacheGet(c, URL(name)) \subseteq GuidSet(as)

\* C13 as amended: a successful refresh of a feed leaves the cache set of its
\* URL within the guid values of the new list (None counted as a value), and
\* from then on every step keeps it within those of the current list, so that
\* it is no larger than the set of the list's guid values.
C13_WithinListOnceRefreshed ==
    [][\A name \in CONFIG :
        (Refreshed(name) \/ Listed(CACHE, name, articles[name])) =>
            /\ Listed(CACHE', name, articles'[name])
            /\ Cardinality(CacheGet(CACHE', URL(name))) <=
                    Cardinality(GuidSet(articles'[name]))
      ]_vars

\* C13 witness: click handlers have marked read both articles of a refreshed
\* list, one of them without a guid, and the file holds the cache.
C13_Witness ==
    /\ ev.op = "handler" /\ disk.exists /\ disk.data = CACHE
    /\ Len(articles[ev.feed]) = 2
    /\ CacheGet(CACHE, URL(ev.feed)) = {None, "b"}
    /\ GuidSet(articles[ev.feed]) = {None, "b"}

\* C14: at most one message of a feed is queued and unanswered at any time.
C14_OneFetchInFlight == \A name \in CONFIG : Queued(name) <= 1

\* C15: a successful refresh of a feed keeps the read state the handlers left:
\* a guid of the new list is in the cache set of the feed's URL after the
\* refresh exactly if it was in it when the response was handled.
C15_ManualChangeSurvivesRefresh ==
    [][\A name \in CONFIG :
        Refreshed(name) =>
            \A g \in GuidSet(articles'[name]) :
                g \in CacheGet(CACHE', URL(name)) <=> g \in CacheGet(CACHE, URL(name))
      ]_vars

(***************************************************************************)
(* Two feeds under the scheduling of the GLib main loop: do_activate runs, *)
(* the 180 s timer keeps firing (its callback returns True) and the        *)
(* session calls update_after for every queued message of every feed       *)
(***************************************************************************)
\* the servers fail, or send a document of at most one item that has an id
IdResponses ==
    {r \in ShortResponses : \A i \in 1..Len(r.body) : r.body[i].id # Absent}

NextFair == NextWith(IdResponses, "prompt")

Delivered(name) ==
    \E notify \in BOOLEAN, r \in IdResponses :
        update_after(name, notify, r) /\ UNCHANGED hist

Fairness ==
    /\ WF_vars(do_activate /\ UNCHANGED hist)
    /\ WF_vars(update /\ Prompt' /\ UNCHANGED hist)
    /\ \A name \in {"f1", "f2"} : WF_vars(Delivered(name))

SpecFair == InitTwo /\ [][NextFair]_vars /\ Fairness

\* a message of the feed was queued
Fetched(name) == \E notify \in BOOLEAN : pending'[name][notify] > pending[name][notify]

\* C16: a response of a feed that fails leaves the queued messages of the other
\* feeds queued and the window activated; the timer queues a message for every
\* configured feed, whatever became of its last response; a feed whose response
\* failed is fetched again; and every feed is fetched again and again.
C16_FailureIsolatedAndRetried ==
    /\ [][\A name \in CONFIG :
            /\ (Answered(name) /\ ~ev'.ok) =>
                    /\ activated'
                    /\ \A other \in CONFIG \ {name} : pending'[other] = pending[other]
            /\ Fetched(name) => \A other \in CONFIG : Fetched(other)
         ]_vars
    /\ \A name \in {"f1", "f2"} :
        /\ (ev.op = "update_after" /\ ev.feed = name /\ ~ev.ok) ~> (pending[name][TRUE] > 0)
        /\ []<><<Fetched(name)>>_vars

\* C16 witness: f1's response of a timer cycle failed while f1 has no article,
\* and f2's response of the same cycle is still queued.
C16_Witness ==
    /\ ev.op = "update_after" /\ ev.feed = "f1" /\ ev.notify /\ ~ev.ok
    /\ pending["f1"][TRUE] = 0 /\ pending["f2"][TRUE] = 1
    /\ articles["f1"] = <<>> /\ articles["f2"] # <<>>

\* C17: a middle click on a row flips the membership of its article's guid in
\* the cache set of the feed's URL, keeps the membership of every other value
\* of that set and the set of every other URL, and a second middle click on the
\* same row right after it gives back the cache the first one found.
C17_ToggleFlipsOneGuid ==
    [][\A name \in CONFIG, row \in 1..MaxLen + 1 :
        _article_clicked(name, row) =>
            LET g == articles[name][row].guid
                u == URL(name)
                again == SetAttention(Toggle(CACHE', u, g), name, articles'[name])
            IN  /\ g \in CacheGet(CACHE', u) <=> g \notin CacheGet(CACHE, u)
                /\ CacheGet(CACHE', u) \ {g} = CacheGet(CACHE, u) \ {g}
                /\ \A v \in (DOMAIN CACHE \cup DOMAIN CACHE') \ {u} :
                        CacheGet(CACHE', v) = CacheGet(CACHE, v)
                /\ again = CACHE
      ]_vars

\* C17 witness: a middle click on the second row of f2 made its article unread
\* while the first one stays read and u1 holds a guid.
C17_Witness ==
    /\ ev.op = "handler" /\ ev.feed = "f2" /\ last_article = [feed |-> "f2", row |-> 2]
    /\ Len(articles["f2"]) = 2
    /\ articles["f2"][2].guid \notin CacheGet(CACHE, "u2")
    /\ articles["f2"][1].guid \in CacheGet(CACHE, "u2")
    /\ CacheGet(CACHE, "u1") # {}
    /\ disk.exists /\ disk.data = CACHE

\* C18: the first successful refresh of a feed notifies nothing.  Checked for
\* the runs that start without a cache file, where the key of the feed's URL
\* is missing from the cache exactly until a response of the feed is parsed.
C18_FirstRefreshSilent ==
    [][\A name \in CONFIG :
        (Refreshed(name) /\ URL(name) \notin DOMAIN CACHE) => ev'.found = <<>>
      ]_vars

\* C19: after a double click on the feed list every article of the visible
\* feed's list is read and the cache set of every other URL is as before; a
\* click count other than 2 leaves the cache and the file as they were.
C19_MarkAllRead ==
    [][\A clicks \in 1..2 :
        _feed_clicked(clicks) =>
            IF clicks = 2
            THEN /\ \A i \in 1..Len(articles'[visible]) :
                        read(CACHE', articles'[visible][i])
                 /\ \A u \in (DOMAIN CACHE \cup DOMAIN CACHE') \ {URL(visible)} :
                        CacheGet(CACHE', u) = CacheGet(CACHE, u)
            ELSE CACHE' = CACHE /\ disk' = disk
      ]_vars

\* C19 witness: both articles of f2, the visible feed, are read, the cursor is
\* on its first row, the file holds the cache, and an article of f1 is unread.
C19_Witness ==
    /\ ev.op = "handler" /\ ev.feed = "f2" /\ visible = "f2"
    /\ Len(articles["f2"]) = 2 /\ cursor["f2"] = 1
    /\ Unread(CACHE, "f2", articles["f2"]) = {}
    /\ Unread(CACHE, "f1", articles["f1"]) # {}
    /\ disk.exists /\ disk.data = CACHE

====
